---- MODULE Spec2Model ----
(***************************************************************************)
(* Model of spikeextractors/extractors/mearecextractors/mearecextractors.py *)
(* MEArecRecordingExtractor and MEArecSortingExtractor: two adapters over   *)
(* the MEArec container (load, accessors, export).                          *)
(*                                                                          *)
(* Conventions.  An optional Python value is a sequence of length 0 (None)  *)
(* or 1 (the value).  A matrix is a sequence of rows.  Python's 0-based     *)
(* index i is position i+1 of a sequence.  A physical quantity (a time in   *)
(* seconds, a sample position) is an exact rational <<num, den>>, den > 0.  *)
(***************************************************************************)
EXTENDS Integers, Sequences, FiniteSets, TLC

\* ---------------------------------------------------------------- bounds
MaxChannels == 2
MaxFrames == 3
MaxUnits == 2
MaxLoads == 2
MaxFiles == 1

\* ------------------------------------------------------------- optionals
None == <<>>
Some(x) == <<x>>
IsNone(o) == o = <<>>
Get(o) == o[1]

Min2(a, b) == IF a <= b THEN a ELSE b
Max2(a, b) == IF a >= b THEN a ELSE b
SeqRange(s) == {s[i] : i \in 1..Len(s)}

VARIABLES
  recContainer,  \* the recording container behind recording_path
  rec,           \* the MEArecRecordingExtractor object
  dirs,          \* file system: the paths that are directories
  files,         \* file system: path -> the container saved there
  written,       \* history: path -> the export request that wrote the file
  sorter,        \* the MEArecSortingExtractor object
  loads,         \* number of mr.load_recordings calls made by sorter
  loadedFrom,    \* history: the export request whose file sorter loaded
  result         \* outcome of the call that has not returned yet

varsRec == <<recContainer, rec>>
varsFs == <<dirs, files, written>>
varsSort == <<sorter, loads, loadedFrom>>
vars == <<recContainer, rec, dirs, files, written, sorter, loads, loadedFrom, result>>

NoResult == [op |-> "none"]

\* ---------------------------------------------- recording container (input)
TraceValue(c, f) == 10 * c + f
PosRow(r) == <<r, 10 * r, 0>>

RecContainers ==
  { [recordings |-> [c \in 1..nch |-> [f \in 1..nfr |-> TraceValue(c, f)]],
     fs |-> fs,
     channel_positions |-> [r \in 1..npos |-> PosRow(r)]] :
       nch \in 1..MaxChannels, nfr \in 0..MaxFrames,
       npos \in 0..(MaxChannels + 1), fs \in {30000} }

\* ------------------------------------------------ MEArecRecordingExtractor
NumRows(m) == Len(m)
NumCols(m) == IF Len(m) = 0 THEN 0 ELSE Len(m[1])

\* Variant of LocationsOf: keeps the positions whenever there are at least as
\* many rows as channels.
LocationsOfAtLeast(recgen, num_channels) ==
  IF Len(recgen.channel_positions) >= num_channels
  THEN Some(recgen.channel_positions)
  ELSE None

\* _initialize, lines 39-42: the positions are kept only when there is one
\* row per channel.
LocationsOf(recgen, num_channels) ==
  IF Len(recgen.channel_positions) = num_channels
  THEN Some(recgen.channel_positions)
  ELSE None

\* _initialize, lines 33-42.
RecInitialize(self, recgen) ==
  [self EXCEPT !._fs = Some(recgen.fs),
               !._recordings = Some(recgen.recordings),
               !._num_channels = NumRows(recgen.recordings),
               !._num_frames = NumCols(recgen.recordings),
               !._locations = LocationsOf(recgen, NumRows(recgen.recordings))]

\* RecordingExtractor.setChannelProperty as called on line 31.
SetChannelProperty(self, chan, name, value) ==
  LET old == self.channel_properties
  IN  [self EXCEPT !.channel_properties =
         IF chan \in DOMAIN old
         THEN [old EXCEPT ![chan] = (name :> value) @@ old[chan]]
         ELSE (chan :> (name :> value)) @@ old]

\* __init__, lines 29-31: for chan, pos in enumerate(self._locations).
RECURSIVE SetLocations(_, _, _)
SetLocations(self, locs, k) ==
  IF k > Len(locs) THEN self
  ELSE SetLocations(SetChannelProperty(self, k - 1, "location", locs[k]), locs, k + 1)

\* The object before __init__ runs (never observed by a caller).
RecBlank ==
  [constructed |-> FALSE, _fs |-> None, _recordings |-> None,
   _num_channels |-> 0, _num_frames |-> 0, _locations |-> None,
   channel_properties |-> <<>>]

\* __init__, lines 20-31.
RecNew(recgen) ==
  LET s0 == [RecBlank EXCEPT !.constructed = TRUE]
      s1 == RecInitialize(s0, recgen)
  IN  IF IsNone(s1._locations) THEN s1
      ELSE SetLocations(s1, Get(s1._locations), 1)

GetChannelIds(self) == [i \in 1..self._num_channels |-> i - 1]
GetNumFrames(self) == self._num_frames
GetNumChannels(self) == Len(GetChannelIds(self))

\* Python slice start:stop over a dimension of length n: a negative bound
\* counts from the end, and both are clamped to [0, n].
SliceBound(i, n) == IF i < 0 THEN Max2(i + n, 0) ELSE Min2(i, n)
\* Variant of SliceRow: the closed range start..stop.
SliceRowClosed(row, start, stop) ==
  LET s == SliceBound(start, Len(row))
      e == SliceBound(stop + 1, Len(row))
  IN  [j \in 1..Max2(e - s, 0) |-> row[s + j]]

SliceRow(row, start, stop) ==
  LET s == SliceBound(start, Len(row))
      e == SliceBound(stop, Len(row))
  IN  [j \in 1..Max2(e - s, 0) |-> row[s + j]]

\* numpy integer-array index along an axis of length n: -n <= i < n, a
\* negative i counts from the end, anything else is an IndexError.
\* Variant of IndexInRange: negative indices are rejected.
IndexInRangeNonNeg(i, n) == 0 <= i /\ i < n

IndexInRange(i, n) == -n <= i /\ i < n
WrapIndex(i, n) == IF i < 0 THEN i + n ELSE i

\* self._recordings[channel_ids, start_frame:end_frame], line 60.
ArrayIndex(m, channel_ids, start, stop) ==
  IF \E k \in 1..Len(channel_ids) : ~IndexInRange(channel_ids[k], NumRows(m))
  THEN [kind |-> "IndexError", value |-> <<>>]
  ELSE [kind |-> "ok",
        value |-> [k \in 1..Len(channel_ids) |->
                     SliceRow(m[WrapIndex(channel_ids[k], NumRows(m)) + 1], start, stop)]]

DefaultEndFrame(self) == GetNumFrames(self)

\* getTraces, lines 53-60; the three arguments are optionals.
GetTracesOf(self, channel_ids, start_frame, end_frame) ==
  LET sf == IF IsNone(start_frame) THEN 0 ELSE Get(start_frame)
      ef == IF IsNone(end_frame) THEN DefaultEndFrame(self) ELSE Get(end_frame)
      ch == IF IsNone(channel_ids) THEN [i \in 1..GetNumChannels(self) |-> i - 1]
            ELSE Get(channel_ids)
  IN  ArrayIndex(Get(self._recordings), ch, sf, ef)

\* ------------------------------------------------------------ rationals
\* int(x) of a rational: truncation toward zero.
IntCast(q) == IF q[1] >= 0 THEN q[1] \div q[2] ELSE -((-q[1]) \div q[2])

\* np.rint of a rational: the nearest integer, a tie going to the even one.
Rint(q) ==
  LET fl == q[1] \div q[2]
      r == q[1] % q[2]
  IN  IF 2 * r < q[2] THEN fl
      ELSE IF 2 * r > q[2] THEN fl + 1
      ELSE IF fl % 2 = 0 THEN fl ELSE fl + 1

\* start <= q and q < end for integers start, end (end None is np.Inf).
AtLeast(q, start) == start * q[2] <= q[1]
Below(q, end) == IsNone(end) \/ q[1] < Get(end) * q[2]

\* list.index(x): the 0-based position of the first x, or -1 when absent
\* (where Python raises ValueError).
IndexOf(s, x) ==
  IF \E k \in 1..Len(s) : s[k] = x
  THEN (CHOOSE k \in 1..Len(s) : s[k] = x /\ \A j \in 1..(k - 1) : s[j] # x) - 1
  ELSE -1

\* -------------------------------------------------- MEArecSortingExtractor
\* The object before __init__ runs.
SortBlank ==
  [status |-> "none", err |-> "", _recording_path |-> <<>>,
   _num_units |-> None, _spike_trains |-> None, _unit_ids |-> None,
   _fs |-> None, unit_properties |-> <<>>]

Raised(self, e) == [self EXCEPT !.status = "failed", !.err = e]
Done(self) == [self EXCEPT !.status = "ready", !.err = ""]

\* SortingExtractor.setUnitProperty as called on line 114.
SetUnitProperty(self, unit_id, name, value) ==
  LET old == self.unit_properties
  IN  [self EXCEPT !.unit_properties =
         IF unit_id \in DOMAIN old
         THEN [old EXCEPT ![unit_id] = (name :> value) @@ old[unit_id]]
         ELSE (unit_id :> (name :> value)) @@ old]

\* Lines 113-114: the loop over zip(self._unit_ids, self._spike_trains);
\* st.annotations['soma_position'] raises KeyError where the key is absent,
\* the properties set by the earlier iterations staying set.
RECURSIVE SetSomaLocations(_, _, _, _)
SetSomaLocations(self, ids, sts, k) ==
  IF k > Min2(Len(ids), Len(sts)) THEN Done(self)
  ELSE IF IsNone(sts[k].annotations.soma_position) THEN Raised(self, "KeyError")
  ELSE SetSomaLocations(
         SetUnitProperty(self, ids[k], "soma_location",
                         Get(sts[k].annotations.soma_position)),
         ids, sts, k + 1)

\* Lines 105-108: the unit ids, or the exception raised while computing them.
UnitIdsOf(sts) ==
  IF Len(sts) = 0 THEN [err |-> "IndexError", ids |-> <<>>]
  ELSE IF ~IsNone(sts[1].annotations.unit_id)
  THEN IF \E k \in 1..Len(sts) : IsNone(sts[k].annotations.unit_id)
       THEN [err |-> "KeyError", ids |-> <<>>]
       ELSE [err |-> "",
             ids |-> [k \in 1..Len(sts) |-> IntCast(Get(sts[k].annotations.unit_id))]]
  ELSE [err |-> "", ids |-> [k \in 1..Len(sts) |-> k - 1]]

\* _initialize, lines 101-114, on the container recgen that
\* mr.load_recordings returned.
SortInitialize(self, recgen) ==
  LET sts == recgen.spiketrains
      s1 == [self EXCEPT !._num_units = Some(Len(sts))]
      u == UnitIdsOf(sts)
  IN  IF u.err # "" THEN Raised(s1, u.err)
      ELSE LET s2 == [s1 EXCEPT !._unit_ids = Some(u.ids),
                                !._spike_trains = Some(sts),
                                !._fs = Some(recgen.fs)]
           IN  IF ~IsNone(sts[1].annotations.soma_position)
               THEN SetSomaLocations(s2, u.ids, sts, 1)
               ELSE Done(s2)

\* mr.load_recordings(recordings=path), line 103, then the rest of
\* _initialize; a path that holds no container is the loader's own error.
LoadAndInitialize(self, fs_files) ==
  IF self._recording_path \notin DOMAIN fs_files
  THEN Raised(self, "LoadError")
  ELSE SortInitialize(self, fs_files[self._recording_path])

\* __init__, lines 92-99.
SortNew(path, fs_files) ==
  LoadAndInitialize([SortBlank EXCEPT !._recording_path = path], fs_files)

\* Variant of NeedsInit: the guard always fires.
NeedsInitAlways(field) == TRUE

\* The guards of lines 117, 122 and 131.
NeedsInit(field) == IsNone(field)

\* A guarded accessor's first two lines: the object after them, and the number
\* of loads they made.
Ensure(self, field, fs_files) ==
  IF NeedsInit(field)
  THEN [obj |-> LoadAndInitialize(self, fs_files), loaded |-> 1]
  ELSE [obj |-> self, loaded |-> 0]

\* getUnitIds, lines 116-119.
GetUnitIdsOf(self, fs_files) ==
  LET e == Ensure(self, self._unit_ids, fs_files)
  IN  IF e.obj.status # "ready" THEN e @@ [kind |-> e.obj.err, value |-> <<>>]
      ELSE e @@ [kind |-> "ok", value |-> Get(e.obj._unit_ids)]

\* getNumUnits, lines 121-124.
GetNumUnitsOf(self, fs_files) ==
  LET e == Ensure(self, self._num_units, fs_files)
  IN  IF e.obj.status # "ready" THEN e @@ [kind |-> e.obj.err, value |-> 0]
      ELSE e @@ [kind |-> "ok", value |-> Get(e.obj._num_units)]

\* times.rescale('s') * self._fs.rescale('Hz'), lines 133-134: the sample
\* position of a time in seconds.
SamplePosition(t, fs) == <<t[1] * fs, t[2]>>

\* Line 135: np.where keeps, among the positions k..Len(positions), those
\* with start <= position < end; the positions are not rounded yet.
RECURSIVE InWindow(_, _, _, _)
InWindow(positions, start, end, k) ==
  IF k > Len(positions) THEN <<>>
  ELSE IF AtLeast(positions[k], start) /\ Below(positions[k], end)
  THEN <<positions[k]>> \o InWindow(positions, start, end, k + 1)
  ELSE InWindow(positions, start, end, k + 1)

\* Lines 135-136: the positions kept are rounded by np.rint.
WindowedFrames(positions, start, end) ==
  LET kept == InWindow(positions, start, end, 1)
  IN  [k \in 1..Len(kept) |-> Rint(kept[k])]

\* getUnitSpikeTrain, lines 126-136; start_frame and end_frame are optionals.
GetUnitSpikeTrainOf(self, unit_id, start_frame, end_frame, fs_files) ==
  LET sf == IF IsNone(start_frame) THEN 0 ELSE Get(start_frame)
      e1 == Ensure(self, self._spike_trains, fs_files)
  IN  IF e1.obj.status # "ready" THEN e1 @@ [kind |-> e1.obj.err, value |-> <<>>]
      ELSE LET e2 == Ensure(e1.obj, e1.obj._unit_ids, fs_files)
               e == [obj |-> e2.obj, loaded |-> e1.loaded + e2.loaded]
           IN  IF e.obj.status # "ready" THEN e @@ [kind |-> e.obj.err, value |-> <<>>]
               ELSE LET i == IndexOf(Get(e.obj._unit_ids), unit_id)
                    IN  IF i < 0 THEN e @@ [kind |-> "ValueError", value |-> <<>>]
                        ELSE LET st == Get(e.obj._spike_trains)[i + 1]
                                 pos == [k \in 1..Len(st.times) |->
                                           SamplePosition(st.times[k], Get(e.obj._fs))]
                             IN  e @@ [kind |-> "ok",
                                       value |-> WindowedFrames(pos, sf, end_frame)]

\* ------------------------------------------------------------ save paths
\* Path.suffix of the final component: the text after the last dot, unless
\* that dot is the name's first character or its last.  "" is no suffix;
\* the dot itself is not kept ("h5" stands for ".h5").
PySuffix(name) ==
  IF Len(name) >= 2 /\ name[Len(name)] # "" /\ ~(Len(name) = 2 /\ name[1] = "")
  THEN name[Len(name)]
  ELSE ""
PathSuffix(path) == PySuffix(path[Len(path)])

\* Lines 75-77 and 154-156: a directory gets the default file name appended.
ResolveSavePath(save_path, default_name, d) ==
  IF save_path \in d THEN Append(save_path, default_name) ELSE save_path

\* Lines 78 and 157.
AcceptedSuffix(path) == PathSuffix(path) = "h5" \/ PathSuffix(path) = "hdf5"

UsageError == "Provide a folder or an .h5/.hdf5 as 'save_path'"
Failure(kind, msg, notice) ==
  [kind |-> kind, msg |-> msg, notice |-> notice, saves |-> <<>>]
Saved(path, recgen, notice) ==
  [kind |-> "ok", msg |-> "", notice |-> notice,
   saves |-> <<[path |-> path, recgen |-> recgen]>>]

\* RecordingExtractor.getChannelPropertyNames as called on line 81.
ChannelPropertyNames(recording) ==
  UNION {DOMAIN recording.channel_properties[c] : c \in DOMAIN recording.channel_properties}

\* writeRecording, lines 63-88, with the adapter as the recording source.
WriteRecordingOf(recording, save_path, d) ==
  LET notice == save_path \in d
      path == ResolveSavePath(save_path, <<"recording", "h5">>, d)
  IN  IF AcceptedSuffix(path)
      THEN LET ids == GetChannelIds(recording)
               positions == IF "location" \in ChannelPropertyNames(recording)
                            THEN Some([k \in 1..Len(ids) |->
                                         recording.channel_properties[ids[k]]["location"]])
                            ELSE None
               recgen == [recordings |-> Some(GetTracesOf(recording, None, None, None).value),
                          channel_positions |-> positions,
                          spiketrains |-> <<>>,
                          fs |-> Get(recording._fs)]
           IN  Saved(path, recgen, notice)
      ELSE Failure("Exception", UsageError, notice)

SeqMin(q) == CHOOSE x \in SeqRange(q) : \A y \in SeqRange(q) : x <= y
SeqMax(q) == CHOOSE x \in SeqRange(q) : \A y \in SeqRange(q) : x >= y

\* Lines 160-165: the spike trains of the units k..Len(unit_ids), or the
\* ValueError np.min raises on a unit that has no spike.
RECURSIVE BuildSpikeTrains(_, _, _)
BuildSpikeTrains(sorting, sampling_frequency, k) ==
  IF k > Len(sorting.unit_ids) THEN [err |-> "", sts |-> <<>>]
  ELSE LET u == sorting.unit_ids[k]
           frames == sorting.trains[IndexOf(sorting.unit_ids, u) + 1]
       IN  IF Len(frames) = 0 THEN [err |-> "ValueError", sts |-> <<>>]
           ELSE LET st == [times |-> [j \in 1..Len(frames) |-> <<frames[j], sampling_frequency>>],
                           t_start |-> <<SeqMin(frames), sampling_frequency>>,
                           t_stop |-> <<SeqMax(frames), sampling_frequency>>,
                           annotations |-> [unit_id |-> Some(<<u, 1>>),
                                            soma_position |-> None]]
                    rest == BuildSpikeTrains(sorting, sampling_frequency, k + 1)
                IN  IF rest.err # "" THEN rest
                    ELSE [err |-> "", sts |-> <<st>> \o rest.sts]

\* writeSorting, lines 139-172.
WriteSortingOf(sorting, save_path, sampling_frequency, d) ==
  LET notice == save_path \in d
      path == ResolveSavePath(save_path, <<"sorting", "h5">>, d)
  IN  IF AcceptedSuffix(path)
      THEN LET b == BuildSpikeTrains(sorting, sampling_frequency, 1)
           IN  IF b.err # "" THEN Failure(b.err, "", notice)
               ELSE Saved(path,
                          [recordings |-> None, channel_positions |-> None,
                           spiketrains |-> b.sts, fs |-> sampling_frequency],
                          notice)
      ELSE Failure("Exception", UsageError, notice)

\* mr.save_recording_generator, lines 86 and 170: each save puts the
\* container at its path.
RECURSIVE ApplySaves(_, _)
ApplySaves(fs_files, saves) ==
  IF Len(saves) = 0 THEN fs_files
  ELSE ApplySaves((saves[1].path :> saves[1].recgen) @@ fs_files, Tail(saves))

\* ------------------------------------------------------ recording actions
ChannelIdArgs(n) ==
  LET ids == (-(n + 1))..n
  IN  {None} \cup {Some(<<>>)} \cup {Some(<<a>>) : a \in ids}
        \cup {Some(<<a, b>>) : a \in ids, b \in ids}
FrameArgs(n) == {None} \cup {Some(i) : i \in (-1)..(n + 1)}

\* The caller is single-threaded and synchronous: a call is made only after
\* the previous one has returned (its outcome consumed).
Idle == result = NoResult

Return ==
  /\ result # NoResult
  /\ result' = NoResult
  /\ UNCHANGED <<varsRec, varsFs, varsSort>>

RecConstruct ==
  /\ Idle
  /\ ~rec.constructed
  /\ rec' = RecNew(recContainer)
  /\ result' = [op |-> "__init__"]
  /\ UNCHANGED <<recContainer, varsFs, varsSort>>

GetTraces ==
  /\ Idle
  /\ rec.constructed
  /\ \E c \in ChannelIdArgs(rec._num_channels),
        s \in FrameArgs(rec._num_frames), e \in FrameArgs(rec._num_frames) :
       result' = [op |-> "getTraces", channel_ids |-> c, start_frame |-> s,
                  end_frame |-> e, out |-> GetTracesOf(rec, c, s, e)]
  /\ UNCHANGED <<varsRec, varsFs, varsSort>>

NoRecContainer == [recordings |-> <<>>, fs |-> 0, channel_positions |-> <<>>]

InitRecording ==
  /\ recContainer \in RecContainers
  /\ rec = RecBlank
  /\ dirs = {}
  /\ files = <<>>
  /\ written = <<>>
  /\ sorter = SortBlank
  /\ loads = 0
  /\ loadedFrom = None
  /\ result = NoResult

NextRecording == RecConstruct \/ GetTraces \/ Return

SpecRecording == InitRecording /\ [][NextRecording]_vars

\* --------------------------------------------- sorting container (input)
\* A path is a sequence of names; a name is the sequence of its dot-separated
\* segments ("in.h5" is <<"in", "h5">>).
InPath == << <<"in", "h5">> >>
MissingPath == << <<"absent", "h5">> >>

SpikeTrain(times, unit_id, soma) ==
  [times |-> times, t_start |-> <<0, 1>>, t_stop |-> <<10, 1>>,
   annotations |-> [unit_id |-> unit_id, soma_position |-> soma]]

\* Times in seconds: halves (ties at 1 Hz) and thirds.
TimeChoices ==
  { << <<1, 2>>, <<3, 2>> >>, << <<2, 3>>, <<5, 3>>, <<8, 3>> >> }
UnitIdChoices == {None, Some(<<3, 1>>), Some(<<5, 2>>)}
SomaChoices == {None, Some(<<7, 8, 9>>)}
TrainChoices ==
  { SpikeTrain(t, u, p) : t \in TimeChoices, u \in UnitIdChoices, p \in SomaChoices }

RECURSIVE SeqsOfLen(_, _)
SeqsOfLen(S, n) ==
  IF n = 0 THEN {<<>>}
  ELSE {Append(q, x) : q \in SeqsOfLen(S, n - 1), x \in S}
SeqsUpTo(S, n) == UNION {SeqsOfLen(S, k) : k \in 0..n}

SortContainers ==
  { [recordings |-> None, channel_positions |-> None, spiketrains |-> sts, fs |-> fs] :
      sts \in SeqsUpTo(TrainChoices, MaxUnits), fs \in {1, 2} }

\* -------------------------------------------------------- sorting actions
AbsentUnit == 99
StartArgs == {None, Some(0), Some(1), Some(2)}
EndArgs == {None, Some(1), Some(2), Some(3)}

Outcome(r) == [kind |-> r.kind, value |-> r.value]

SortConstruct ==
  /\ Idle
  /\ \E p \in (DOMAIN files) \cup {MissingPath} :
       /\ sorter' = SortNew(p, files)
       /\ loadedFrom' = IF p \in DOMAIN written THEN Some(written[p]) ELSE None
       /\ result' = [op |-> "__init__", path |-> p]
  /\ loads' = 1
  /\ UNCHANGED <<varsRec, varsFs>>

GetUnitIds ==
  /\ Idle
  /\ sorter.status = "ready"
  /\ LET r == GetUnitIdsOf(sorter, files)
     IN  /\ sorter' = r.obj
         /\ loads' = loads + r.loaded
         /\ result' = [op |-> "getUnitIds", out |-> Outcome(r)]
  /\ UNCHANGED <<varsRec, varsFs, loadedFrom>>

GetNumUnits ==
  /\ Idle
  /\ sorter.status = "ready"
  /\ LET r == GetNumUnitsOf(sorter, files)
     IN  /\ sorter' = r.obj
         /\ loads' = loads + r.loaded
         /\ result' = [op |-> "getNumUnits", out |-> Outcome(r)]
  /\ UNCHANGED <<varsRec, varsFs, loadedFrom>>

GetUnitSpikeTrain ==
  /\ Idle
  /\ sorter.status = "ready"
  /\ \E u \in SeqRange(Get(sorter._unit_ids)) \cup {AbsentUnit},
        s \in StartArgs, e \in EndArgs :
       LET r == GetUnitSpikeTrainOf(sorter, u, s, e, files)
       IN  /\ sorter' = r.obj
           /\ loads' = loads + r.loaded
           /\ result' = [op |-> "getUnitSpikeTrain", unit_id |-> u,
                         start_frame |-> s, end_frame |-> e, out |-> Outcome(r)]
  /\ UNCHANGED <<varsRec, varsFs, loadedFrom>>

\* _initialize run again on the constructed object.
Reinitialize ==
  /\ Idle
  /\ sorter.status = "ready"
  /\ loads < MaxLoads
  /\ sorter' = LoadAndInitialize(sorter, files)
  /\ loads' = loads + 1
  /\ result' = [op |-> "_initialize"]
  /\ UNCHANGED <<varsRec, varsFs, loadedFrom>>

InitSorting ==
  /\ recContainer = NoRecContainer
  /\ rec = RecBlank
  /\ dirs = {}
  /\ \E c \in SortContainers : files = (InPath :> c)
  /\ written = <<>>
  /\ sorter = SortBlank
  /\ loads = 0
  /\ loadedFrom = None
  /\ result = NoResult

NextSorting ==
  SortConstruct \/ GetUnitIds \/ GetNumUnits \/ GetUnitSpikeTrain \/ Reinitialize \/ Return

SpecSorting == InitSorting /\ [][NextSorting]_vars

\* --------------------------------------------------------- export inputs
SavePaths ==
  { << <<"out">> >>, << <<"store", "h5">> >>, << <<"rec", "h5">> >>,
    << <<"rec", "hdf5">> >>, << <<"rec", "txt">> >>, << <<"rec", "H5">> >>,
    << <<"", "h5">> >>, << <<"rec">> >> }
DirChoices == { {}, { << <<"out">> >>, << <<"store", "h5">> >> } }

SourceIdChoices == { <<>>, <<4>>, <<7, 1>> }
SourceTrainChoices == { <<>>, <<0, 2>>, <<1>> }
SortingSources ==
  { [unit_ids |-> ids, trains |-> tr] :
      ids \in SourceIdChoices, tr \in SeqsUpTo(SourceTrainChoices, MaxUnits) }
SamplingRates == {2, 3}

RecSourceContainers ==
  { c \in RecContainers :
      /\ Len(c.recordings) = MaxChannels
      /\ Len(c.recordings[1]) = MaxFrames
      /\ Len(c.channel_positions) \in {0, MaxChannels} }

\* ---------------------------------------------------------- export actions
WritePaths(saves) == {saves[k].path : k \in 1..Len(saves)}
Forget(h, paths) == [p \in (DOMAIN h) \ paths |-> h[p]]

WriteRecording ==
  /\ Idle
  /\ rec.constructed
  /\ \E sp \in SavePaths :
       LET r == WriteRecordingOf(rec, sp, dirs)
       IN  /\ \A p \in WritePaths(r.saves) :
                p \in DOMAIN files \/ Cardinality(DOMAIN files) < MaxFiles
           /\ files' = ApplySaves(files, r.saves)
           /\ written' = Forget(written, WritePaths(r.saves))
           /\ result' = [op |-> "writeRecording", save_path |-> sp, out |-> r]
  /\ UNCHANGED <<varsRec, dirs, varsSort>>

WriteSorting ==
  /\ Idle
  /\ \E src \in SortingSources, sp \in SavePaths, rate \in SamplingRates :
       /\ Len(src.trains) = Len(src.unit_ids)
       /\ LET r == WriteSortingOf(src, sp, rate, dirs)
              req == [sorting |-> src, sampling_frequency |-> rate]
          IN  /\ \A p \in WritePaths(r.saves) :
                   p \in DOMAIN files \/ Cardinality(DOMAIN files) < MaxFiles
              /\ files' = ApplySaves(files, r.saves)
              /\ written' = [p \in WritePaths(r.saves) |-> req] @@ written
              /\ result' = [op |-> "writeSorting", save_path |-> sp,
                            sorting |-> src, sampling_frequency |-> rate, out |-> r]
  /\ UNCHANGED <<varsRec, dirs, varsSort>>

InitExport ==
  /\ recContainer \in RecSourceContainers
  /\ rec = RecNew(recContainer)
  /\ dirs \in DirChoices
  /\ files = <<>>
  /\ written = <<>>
  /\ sorter = SortBlank
  /\ loads = 0
  /\ loadedFrom = None
  /\ result = NoResult

NextExport == WriteRecording \/ WriteSorting \/ SortConstruct \/ Return

SpecExport == InitExport /\ [][NextExport]_vars

\* ------------------------------------------------------------------ C3
\* C3: after constructing a recording adapter, if the position array has as
\* many rows as there are channels then every channel c in [0, num_channels)
\* has the location property equal to row c of the position array; if the
\* lengths differ no channel has a location property.
C3_LocationsFollowPositions ==
  rec.constructed =>
    LET n == Len(recContainer.recordings)
        pos == recContainer.channel_positions
        props == rec.channel_properties
    IN  IF Len(pos) = n
        THEN \A c \in 0..(n - 1) :
               /\ c \in DOMAIN props
               /\ "location" \in DOMAIN props[c]
               /\ props[c]["location"] = pos[c + 1]
        ELSE \A c \in DOMAIN props : "location" \notin DOMAIN props[c]

C3_Witness ==
  /\ rec.constructed
  /\ Len(recContainer.recordings) >= 2
  /\ Len(recContainer.channel_positions) = Len(recContainer.recordings)
  /\ rec.channel_properties[1]["location"] = recContainer.channel_positions[2]

\* ------------------------------------------------------------------ C4
ArgOr(o, d) == IF IsNone(o) THEN d ELSE Get(o)

RequestOutOfRange ==
  LET n == rec._num_channels
      nfr == rec._num_frames
  IN  \/ /\ ~IsNone(result.channel_ids)
         /\ \E k \in 1..Len(Get(result.channel_ids)) :
              Get(result.channel_ids)[k] < 0 \/ Get(result.channel_ids)[k] >= n
      \/ /\ ~IsNone(result.start_frame)
         /\ (Get(result.start_frame) < 0 \/ Get(result.start_frame) > nfr)
      \/ /\ ~IsNone(result.end_frame)
         /\ (Get(result.end_frame) < 0 \/ Get(result.end_frame) > nfr)

C1_SpikeTrainInsideWindow ==
  (/\ result.op = "getUnitSpikeTrain"
   /\ result.out.kind = "ok"
   /\ (IsNone(result.end_frame)
       \/ ArgOr(result.start_frame, 0) <= Get(result.end_frame)))
  => \A k \in 1..Len(result.out.value) :
       /\ ArgOr(result.start_frame, 0) <= result.out.value[k]
       /\ IsNone(result.end_frame) \/ result.out.value[k] < Get(result.end_frame)

\* What the code does guarantee: the returned indices lie in the closed
\* window [start_frame, end_frame].
SpikeTrainInsideClosedWindow ==
  (result.op = "getUnitSpikeTrain" /\ result.out.kind = "ok")
  => \A k \in 1..Len(result.out.value) :
       /\ ArgOr(result.start_frame, 0) <= result.out.value[k]
       /\ IsNone(result.end_frame) \/ result.out.value[k] <= Get(result.end_frame)

\* ------------------------------------------------------------------ C2
Annotated(st) == ~IsNone(st.annotations.unit_id)

\* C2 as claimed, for a container of N >= 1 spike trains without
\* soma_position annotations: construction succeeds, and unit_ids() is the
\* unit_id annotations cast to integer when every spike train is annotated,
\* and [0, ..., N-1] in every other case.
C2_UnitIdsAnnotatedOrPositional ==
  (/\ sorter.status # "none"
   /\ sorter._recording_path \in DOMAIN files
   /\ Len(files[sorter._recording_path].spiketrains) >= 1
   /\ \A k \in 1..Len(files[sorter._recording_path].spiketrains) :
        IsNone(files[sorter._recording_path].spiketrains[k].annotations.soma_position))
  => LET sts == files[sorter._recording_path].spiketrains
     IN  /\ sorter.status = "ready"
         /\ Get(sorter._unit_ids) =
              IF \A k \in 1..Len(sts) : Annotated(sts[k])
              THEN [k \in 1..Len(sts) |-> IntCast(Get(sts[k].annotations.unit_id))]
              ELSE [k \in 1..Len(sts) |-> k - 1]

\* What the code does guarantee: the claimed unit ids whenever the unit_id
\* annotations are present on all spike trains, on none, or not on the first.
UnitIdsWhenFirstDecides ==
  (/\ sorter.status # "none"
   /\ sorter._recording_path \in DOMAIN files
   /\ LET sts == files[sorter._recording_path].spiketrains
      IN  /\ Len(sts) >= 1
          /\ \A k \in 1..Len(sts) : IsNone(sts[k].annotations.soma_position)
          /\ Annotated(sts[1]) => \A k \in 1..Len(sts) : Annotated(sts[k]))
  => LET sts == files[sorter._recording_path].spiketrains
     IN  /\ sorter.status = "ready"
         /\ Get(sorter._unit_ids) =
              IF \A k \in 1..Len(sts) : Annotated(sts[k])
              THEN [k \in 1..Len(sts) |-> IntCast(Get(sts[k].annotations.unit_id))]
              ELSE [k \in 1..Len(sts) |-> k - 1]

\* ------------------------------------------------------------------ C7
HasSoma(st) == ~IsNone(st.annotations.soma_position)

\* C7 as claimed, for a container whose unit_id annotations are all present
\* or all absent and distinct after the cast: when the first spike train
\* has a soma_position, construction succeeds and soma_location is set, to
\* the unit's soma_position, on exactly the units whose spike train has one.
C7_SomaLocationWhereAnnotated ==
  (/\ sorter.status # "none"
   /\ sorter._recording_path \in DOMAIN files
   /\ LET sts == files[sorter._recording_path].spiketrains
      IN  /\ Len(sts) >= 1
          /\ HasSoma(sts[1])
          /\ UnitIdsOf(sts).err = ""
          /\ \A j, k \in 1..Len(sts) :
               j # k => UnitIdsOf(sts).ids[j] # UnitIdsOf(sts).ids[k])
  => LET sts == files[sorter._recording_path].spiketrains
         ids == UnitIdsOf(sts).ids
     IN  /\ sorter.status = "ready"
         /\ \A k \in 1..Len(sts) :
              IF HasSoma(sts[k])
              THEN /\ ids[k] \in DOMAIN sorter.unit_properties
                   /\ "soma_location" \in DOMAIN sorter.unit_properties[ids[k]]
                   /\ sorter.unit_properties[ids[k]]["soma_location"]
                        = Get(sts[k].annotations.soma_position)
              ELSE ids[k] \notin DOMAIN sorter.unit_properties

\* ----------------------------------------------------------------- C10
Accessors == {"getUnitIds", "getNumUnits", "getUnitSpikeTrain"}

\* C10: once the sorting adapter is constructed, a call of getUnitIds,
\* getNumUnits or getUnitSpikeTrain leaves its stored state unchanged and
\* makes no load; and _initialize run again on the same container leaves
\* the stored state exactly as it was.
C10_AccessorsFrameAndIdempotentInit ==
  [][ /\ (sorter.status = "ready" /\ result'.op \in Accessors)
         => (sorter' = sorter /\ loads' = loads /\ files' = files)
      /\ (sorter.status = "ready" /\ result'.op = "_initialize")
         => (sorter' = sorter /\ files' = files) ]_vars

C10_Witness ==
  /\ sorter.status = "ready"
  /\ loads = 2
  /\ Get(sorter._num_units) = 2
  /\ DOMAIN sorter.unit_properties # {}
  /\ result.op = "getUnitSpikeTrain"
  /\ result.out.kind = "ok"
  /\ Len(result.out.value) >= 1

\* ------------------------------------------------------------------ C5
DefaultName(op) ==
  IF op = "writeRecording" THEN <<"recording", "h5">> ELSE <<"sorting", "h5">>

PathRule ==
  LET sp == result.save_path
      saves == result.out.saves
  IN  IF sp \in dirs
      THEN Len(saves) = 1 /\ saves[1].path = Append(sp, DefaultName(result.op))
      ELSE IF PathSuffix(sp) \notin {"h5", "hdf5"}
      THEN /\ result.out.kind = "Exception"
           /\ result.out.msg = "Provide a folder or an .h5/.hdf5 as 'save_path'"
           /\ Len(saves) = 0
      ELSE Len(saves) = 1 /\ saves[1].path = sp

\* C5 as claimed, for both export routines: a directory save_path makes
\* exactly one save, at save_path/recording.h5 or save_path/sorting.h5; a
\* non-directory whose suffix is neither .h5 nor .hdf5 fails with the usage
\* error and saves nothing; any other save_path makes exactly one save, at
\* save_path itself.
C5_SavePathRule ==
  result.op \in {"writeRecording", "writeSorting"} => PathRule

\* The path rule does hold of every export that builds its spike trains: the
\* recording export, and the sorting export of units that all have a spike.
SavePathRuleWhenBuilt ==
  (\/ result.op = "writeRecording"
   \/ /\ result.op = "writeSorting"
      /\ \A k \in 1..Len(result.sorting.trains) : Len(result.sorting.trains[k]) > 0)
  => PathRule

\* ------------------------------------------------------------------ C9
\* One spike train per unit id, in order, and a single save of them.
ExportedAsBuilt ==
  LET src == result.sorting
      R == result.sampling_frequency
      saves == result.out.saves
  IN  /\ Len(saves) = 1
      /\ saves[1].recgen.fs = R
      /\ Len(saves[1].recgen.spiketrains) = Len(src.unit_ids)
      /\ \A k \in 1..Len(src.unit_ids) :
           LET st == saves[1].recgen.spiketrains[k]
               fr == src.trains[k]
           IN  /\ st.times = [j \in 1..Len(fr) |-> <<fr[j], R>>]
               /\ st.annotations.unit_id = Some(<<src.unit_ids[k], 1>>)
               /\ Len(fr) > 0 =>
                    /\ \E j \in 1..Len(fr) : st.t_start = <<fr[j], R>>
                    /\ \A j \in 1..Len(fr) : st.t_start[1] <= fr[j]
                    /\ \E j \in 1..Len(fr) : st.t_stop = <<fr[j], R>>
                    /\ \A j \in 1..Len(fr) : st.t_stop[1] >= fr[j]

\* C9 as claimed: on an accepted save path the sorting export builds one
\* spike train per unit id, in order, a unit without spikes included, with
\* times = sample indices / sampling_rate, start and stop the min and max of
\* those times, annotated with the unit id, and saves exactly once
\* {sampling_rate, spike_trains}.
C9_ExportBuildsOneTrainPerUnit ==
  (/\ result.op = "writeSorting"
   /\ PathSuffix(ResolveSavePath(result.save_path, <<"sorting", "h5">>, dirs))
        \in {"h5", "hdf5"})
  => ExportedAsBuilt

\* The export does so for every source whose units all have a spike.
ExportOfNonEmptyUnits ==
  (/\ result.op = "writeSorting"
   /\ PathSuffix(ResolveSavePath(result.save_path, <<"sorting", "h5">>, dirs))
        \in {"h5", "hdf5"}
   /\ \A k \in 1..Len(result.sorting.trains) : Len(result.sorting.trains[k]) > 0)
  => ExportedAsBuilt

\* ------------------------------------------------------------------ C6
\* The unit ids and unwindowed spike trains an adapter gives are those of
\* the sorting source src.
SameSorting(self, src) ==
  /\ self.status = "ready"
  /\ GetUnitIdsOf(self, files).value = src.unit_ids
  /\ \A k \in 1..Len(src.unit_ids) :
       LET r == GetUnitSpikeTrainOf(self, src.unit_ids[k], None, None, files)
       IN  r.kind = "ok" /\ r.value = src.trains[k]

\* C6 as claimed: exporting any sorting source of non-negative sample
\* indices to an accepted path succeeds, and an adapter constructed on the
\* exported file gives the same unit ids in the same order and, for each,
\* the original sample indices.
C6_SortingRoundTrip ==
  /\ (/\ result.op = "writeSorting"
      /\ PathSuffix(ResolveSavePath(result.save_path, <<"sorting", "h5">>, dirs))
           \in {"h5", "hdf5"})
     => result.out.kind = "ok"
  /\ (sorter.status # "none" /\ ~IsNone(loadedFrom))
     => SameSorting(sorter, Get(loadedFrom).sorting)

\* The round trip does hold of every source that has at least one unit and
\* no unit without spikes.
RoundTripOfNonEmptyUnits ==
  (/\ sorter.status # "none"
   /\ ~IsNone(loadedFrom)
   /\ Len(Get(loadedFrom).sorting.unit_ids) >= 1)
  => SameSorting(sorter, Get(loadedFrom).sorting)

\* Stated of every exported file, the round trip fails on the file of a source
\* without units: the export saves it and line 105 raises IndexError on it.
RoundTripOfExportedFile ==
  (sorter.status # "none" /\ ~IsNone(loadedFrom))
  => SameSorting(sorter, Get(loadedFrom).sorting)

====
